---- MODULE Spec2Model ----
(***************************************************************************)
(* handgover: Sources.To fills the fields of a struct from tagged sources. *)
(* The coercion engine (setValue and its helpers) is modelled as operators *)
(* over byte strings; the population driver (Sources.To) as a state        *)
(* machine that visits one (field, source) pair per step (Spec).  A second *)
(* specification, SpecEngine, is one call of setValue on a struct of one   *)
(* field, over more types and raw strings.                                 *)
(*                                                                         *)
(* A Go string is the sequence of its bytes (0..255).  A type is the chain *)
(* of its kinds, outermost first: <<"Ptr", "Slice", "Uint8">> is *[]uint8. *)
(***************************************************************************)
EXTENDS Integers, Sequences, FiniteSets, TLC

(***************************************************************************)
(* Bounds of the model.                                                    *)
(***************************************************************************)
\* longest raw value bag a resolver returns
MaxBag == 2

(***************************************************************************)
(* Raw strings the resolvers draw from, as byte sequences.                 *)
(***************************************************************************)
\* ""
StrEmpty == << >>
\* "0"
StrZero == <<48>>
\* "1"
StrOne == <<49>>
\* "300"
Str300 == <<51, 48, 48>>
\* "é" (U+00E9, two bytes in UTF-8)
StrEAcute == <<195, 169>>
\* "1ns"
StrNs == <<49, 110, 115>>
\* "{}"
StrJSON == <<123, 125>>
\* "2006-01-02T15:04:05Z"
StrTime == <<50, 48, 48, 54, 45, 48, 49, 45, 48, 50, 84, 49, 53, 58, 48, 52, 58, 48, 53, 90>>

RawStrings == {StrEmpty, StrZero, StrOne, Str300, StrEAcute}

\* every bag of at most n raw strings
BagsUpTo(n) == UNION {[1..k -> RawStrings] : k \in 0..n}

(***************************************************************************)
(* Errors.  Every error value has the same shape: kind is the dynamic Go   *)
(* type newError switches on, text the string that type carries (Num of a  *)
(* *strconv.NumError, Value of a *time.ParseError), id tells errors of one *)
(* kind apart.                                                             *)
(***************************************************************************)
NoErr == [kind |-> "nil", text |-> << >>, id |-> "nil"]

NumError(fn, s, why) == [kind |-> "NumError", text |-> s, id |-> why]

TimeParseError(s) == [kind |-> "ParseError", text |-> s, id |-> "time.Parse"]

PlainError(id) == [kind |-> "error", text |-> << >>, id |-> id]

IsDigit(c) == c >= 48 /\ c <= 57

RECURSIVE Pow2(_)
Pow2(n) == IF n = 0 THEN 1 ELSE 2 * Pow2(n - 1)

\* s without its first n bytes
Drop(s, n) == SubSeq(s, n + 1, Len(s))

(***************************************************************************)
(* Integers of 32 and 64 bits.  Their values are beyond the integers this  *)
(* model computes with, so a value of such a type is kept as its sign and  *)
(* its decimal digits (bytes "0".."9", no leading zero), and the limits of *)
(* a width are compared digit by digit.                                    *)
(***************************************************************************)
Wide(bitSize) == bitSize \in {32, 64}

\* the integer of the given sign and digits; there is one zero
Big(neg, digits) == [neg |-> neg /\ digits # <<48>>, digits |-> digits]

RECURSIVE StripZeros(_)
StripZeros(d) == IF Len(d) > 1 /\ Head(d) = 48 THEN StripZeros(Tail(d)) ELSE d

\* a < b, for digits without leading zeros
DigitsLess(a, b) ==
    \/ Len(a) < Len(b)
    \/ /\ Len(a) = Len(b)
       /\ \E k \in 1..Len(a) : a[k] < b[k] /\ \A m \in 1..(k - 1) : a[m] = b[m]

\* 1 << n, for the shifts the widths 32 and 64 need: 2147483648,
\* 4294967296, 9223372036854775808, 18446744073709551616
Pow2Digits(n) ==
    CASE n = 31 -> <<50, 49, 52, 55, 52, 56, 51, 54, 52, 56>>
      [] n = 32 -> <<52, 50, 57, 52, 57, 54, 55, 50, 57, 54>>
      [] n = 63 -> <<57, 50, 50, 51, 51, 55, 50, 48, 51, 54, 56, 53, 52, 55, 55, 53, 56, 48, 56>>
      [] n = 64 -> <<49, 56, 52, 52, 54, 55, 52, 52, 48, 55, 51, 55, 48, 57, 53, 53, 49, 54, 49, 54>>

\* 1<<bitSize - 1 (a power of two above 1 does not end in 0)
MaxUintDigits(bitSize) ==
    LET p == Pow2Digits(bitSize) IN [p EXCEPT ![Len(p)] = @ - 1]

(***************************************************************************)
(* strconv.FormatUint(n, 10)                                               *)
(***************************************************************************)
RECURSIVE FormatUint(_)
FormatUint(n) ==
    IF n < 10 THEN <<48 + n>>
    ELSE Append(FormatUint(n \div 10), 48 + (n % 10))

(***************************************************************************)
(* strconv.ParseUint(s, 10, bitSize): digits only, no sign; the running    *)
(* value is checked against the maximum of the width at every digit.       *)
(* The result is [err, v].                                                 *)
(***************************************************************************)
RECURSIVE ParseUintLoop(_, _, _, _)
ParseUintLoop(s0, rest, n, maxVal) ==
    IF rest = << >> THEN [err |-> NoErr, v |-> n]
    ELSE IF ~IsDigit(Head(rest))
         THEN [err |-> NumError("ParseUint", s0, "syntax"), v |-> 0]
    ELSE LET n1 == n * 10 + (Head(rest) - 48)
         IN  IF n1 > maxVal
             THEN [err |-> NumError("ParseUint", s0, "range"), v |-> maxVal]
             ELSE ParseUintLoop(s0, Tail(rest), n1, maxVal)

\* the same loop for the widths 32 and 64: the digits read so far are
\* compared with the digits of the maximum
RECURSIVE ParseUintWideLoop(_, _, _)
ParseUintWideLoop(s0, k, maxDigits) ==
    IF k > Len(s0) THEN [err |-> NoErr, v |-> Big(FALSE, StripZeros(s0))]
    ELSE IF ~IsDigit(s0[k])
         THEN [err |-> NumError("ParseUint", s0, "syntax"), v |-> Big(FALSE, <<48>>)]
    ELSE IF DigitsLess(maxDigits, StripZeros(SubSeq(s0, 1, k)))
         THEN [err |-> NumError("ParseUint", s0, "range"), v |-> Big(FALSE, maxDigits)]
    ELSE ParseUintWideLoop(s0, k + 1, maxDigits)

ParseUint(s, bitSize) ==
    IF s = << >> THEN [err |-> NumError("ParseUint", s, "syntax"), v |-> 0]
    ELSE IF Wide(bitSize) THEN ParseUintWideLoop(s, 1, MaxUintDigits(bitSize))
    ELSE ParseUintLoop(s, s, 0, Pow2(bitSize) - 1)

(***************************************************************************)
(* strconv.ParseInt(s, 10, bitSize): optional sign, then ParseUint on the  *)
(* rest, then the signed range of the width.                               *)
(***************************************************************************)
\* the widths 32 and 64: the same steps on digits
ParseIntWide(s, bitSize) ==
    LET neg    == Head(s) = 45
        signed == Head(s) = 45 \/ Head(s) = 43
        body   == IF signed THEN Tail(s) ELSE s
        un     == ParseUint(body, bitSize)
        cutoff == Pow2Digits(bitSize - 1)
    IN  IF un.err.kind # "nil" /\ un.err.id # "range"
        THEN [err |-> NumError("ParseInt", s, "syntax"), v |-> Big(FALSE, <<48>>)]
        ELSE IF ~neg /\ ~DigitsLess(un.v.digits, cutoff)
             THEN [err |-> NumError("ParseInt", s, "range"),
                   v |-> Big(FALSE, MaxUintDigits(bitSize - 1))]
        ELSE IF neg /\ DigitsLess(cutoff, un.v.digits)
             THEN [err |-> NumError("ParseInt", s, "range"), v |-> Big(TRUE, cutoff)]
        ELSE [err |-> NoErr, v |-> Big(neg, un.v.digits)]

\* mutant: the signed limit of the width is not looked at, any value of the
\* unsigned range is taken
ParseIntNoCutoff(s, bitSize) ==
    IF s = << >> THEN [err |-> NumError("ParseInt", s, "syntax"), v |-> 0]
    ELSE LET neg  == Head(s) = 45
             body == IF Head(s) = 45 \/ Head(s) = 43 THEN Tail(s) ELSE s
             un   == ParseUint(body, bitSize)
         IN  IF un.err.kind # "nil"
             THEN [err |-> NumError("ParseInt", s, un.err.id), v |-> un.v]
             ELSE IF Wide(bitSize) THEN [err |-> NoErr, v |-> Big(neg, un.v.digits)]
             ELSE [err |-> NoErr, v |-> IF neg THEN 0 - un.v ELSE un.v]

ParseInt(s, bitSize) ==
    IF s = << >> THEN [err |-> NumError("ParseInt", s, "syntax"), v |-> 0]
    ELSE IF Wide(bitSize) THEN ParseIntWide(s, bitSize)
    ELSE LET neg    == Head(s) = 45
             signed == Head(s) = 45 \/ Head(s) = 43
             body   == IF signed THEN Tail(s) ELSE s
             un     == ParseUint(body, bitSize)
             cutoff == Pow2(bitSize - 1)
         IN  IF un.err.kind # "nil" /\ un.err.id # "range"
             THEN [err |-> NumError("ParseInt", s, "syntax"), v |-> 0]
             ELSE IF ~neg /\ un.v >= cutoff
                  THEN [err |-> NumError("ParseInt", s, "range"), v |-> cutoff - 1]
             ELSE IF neg /\ un.v > cutoff
                  THEN [err |-> NumError("ParseInt", s, "range"), v |-> 0 - cutoff]
             ELSE [err |-> NoErr, v |-> IF neg THEN 0 - un.v ELSE un.v]

(***************************************************************************)
(* strconv.ParseBool                                                       *)
(***************************************************************************)
BoolTrue == { <<49>>, <<116>>, <<84>>, <<84, 82, 85, 69>>,
              <<116, 114, 117, 101>>, <<84, 114, 117, 101>> }

BoolFalse == { <<48>>, <<102>>, <<70>>, <<70, 65, 76, 83, 69>>,
               <<102, 97, 108, 115, 101>>, <<70, 97, 108, 115, 101>> }

ParseBool(s) ==
    IF s \in BoolTrue THEN [err |-> NoErr, v |-> TRUE]
    ELSE IF s \in BoolFalse THEN [err |-> NoErr, v |-> FALSE]
    ELSE [err |-> NumError("ParseBool", s, "syntax"), v |-> FALSE]

(***************************************************************************)
(* strconv.ParseFloat, for the literals the raw strings hold: an optional  *)
(* sign and decimal digits (no fraction, exponent, hex, Inf or NaN occurs  *)
(* among RawStrings).  The value is the integer the digits denote.         *)
(***************************************************************************)
RECURSIVE DecimalValue(_, _)
DecimalValue(s, n) ==
    IF s = << >> THEN n ELSE DecimalValue(Tail(s), n * 10 + (Head(s) - 48))

AllDigits(s) == s # << >> /\ \A k \in 1..Len(s) : IsDigit(s[k])

ParseFloat(s, bitSize) ==
    LET signed == s # << >> /\ (Head(s) = 45 \/ Head(s) = 43)
        body   == IF signed THEN Tail(s) ELSE s
    IN  IF AllDigits(body)
        THEN [err |-> NoErr,
              v |-> IF signed /\ Head(s) = 45 THEN 0 - DecimalValue(body, 0)
                    ELSE DecimalValue(body, 0)]
        ELSE [err |-> NumError("ParseFloat", s, "syntax"), v |-> 0]

(***************************************************************************)
(* time.ParseDuration, for the literals the raw strings hold: "0", or an   *)
(* optional sign, decimal digits and the unit "ns".  Its errors are plain  *)
(* errors (errors.New), not NumErrors.  The value is in nanoseconds.       *)
(***************************************************************************)
ParseDuration(s) ==
    LET signed == s # << >> /\ (Head(s) = 45 \/ Head(s) = 43)
        body   == IF signed THEN Tail(s) ELSE s
        n      == Len(body)
        digits == SubSeq(body, 1, n - 2)
    IN  IF body = <<48>> THEN [err |-> NoErr, v |-> 0]
        ELSE IF n >= 3 /\ SubSeq(body, n - 1, n) = <<110, 115>> /\ AllDigits(digits)
             THEN [err |-> NoErr,
                   v |-> IF signed /\ Head(s) = 45 THEN 0 - DecimalValue(digits, 0)
                         ELSE DecimalValue(digits, 0)]
        ELSE [err |-> PlainError("time: invalid duration"), v |-> 0]

(***************************************************************************)
(* time.Parse(time.RFC3339, s), for the UTC form YYYY-MM-DDTHH:MM:SSZ.     *)
(* A failure is a *time.ParseError whose Value is the whole input.         *)
(***************************************************************************)
IsRFC3339(s) ==
    /\ Len(s) = 20
    /\ \A k \in {1, 2, 3, 4, 6, 7, 9, 10, 12, 13, 15, 16, 18, 19} : IsDigit(s[k])
    /\ s[5] = 45 /\ s[8] = 45 /\ s[11] = 84
    /\ s[14] = 58 /\ s[17] = 58 /\ s[20] = 90

TimeParse(s) ==
    IF IsRFC3339(s) THEN [err |-> NoErr, v |-> s]
    ELSE [err |-> TimeParseError(s), v |-> << >>]

(***************************************************************************)
(* json.Unmarshal into a fresh struct{ Hello string `json:"hello"` }, for  *)
(* the documents the raw strings hold: "{}" decodes to the zero struct,    *)
(* every other raw string is malformed or of the wrong JSON type.  The     *)
(* struct value is the byte string of its Hello member.                    *)
(***************************************************************************)
JSONUnmarshal(s) ==
    IF s = StrJSON THEN [err |-> NoErr, v |-> << >>]
    ELSE [err |-> PlainError("json"), v |-> << >>]

(***************************************************************************)
(* strings.Split(s, ""): s cut into its UTF-8 sequences, one string per    *)
(* character; a byte that starts no well-formed sequence is a character of *)
(* its own.                                                                *)
(***************************************************************************)
IsCont(s, k) == k <= Len(s) /\ s[k] >= 128 /\ s[k] <= 191

RuneSize(s) ==
    LET b == Head(s)
    IN  IF b >= 194 /\ b <= 223 /\ IsCont(s, 2) THEN 2
        ELSE IF b >= 224 /\ b <= 239 /\ IsCont(s, 2) /\ IsCont(s, 3) THEN 3
        ELSE IF b >= 240 /\ b <= 244 /\ IsCont(s, 2) /\ IsCont(s, 3) /\ IsCont(s, 4) THEN 4
        ELSE 1

RECURSIVE Explode(_)
Explode(s) ==
    IF s = << >> THEN << >>
    ELSE <<SubSeq(s, 1, RuneSize(s))>> \o Explode(Drop(s, RuneSize(s)))

(***************************************************************************)
(* Types and values.  Kind is reflect.Kind of the outermost type:          *)
(* time.Duration is of kind Int64, time.Time and the JSON struct of kind   *)
(* Struct.  A pointer value is a heap address (0 is nil), a slice value    *)
(* the sequence of its elements, an integer, float or duration value an    *)
(* integer, a string, time or struct value a byte string.  "Empty" is the  *)
(* struct without members, struct{}, whose one value is << >>.             *)
(* "NamedInt64" is a defined type of underlying type int64 other than      *)
(* time.Duration; "IntOn32" and "IntOn64" are int, "UintOn32" and          *)
(* "UintOn64" uint, in a build whose bits.UintSize is 32 and 64.           *)
(***************************************************************************)
Kind(t) ==
    CASE Head(t) = "Duration" -> "Int64"
      [] Head(t) = "Time"     -> "Struct"
      [] Head(t) = "JSON"     -> "Struct"
      [] Head(t) = "Empty"    -> "Struct"
      [] Head(t) = "NamedInt64" -> "Int64"
      [] Head(t) \in {"IntOn32", "IntOn64"}   -> "Int"
      [] Head(t) \in {"UintOn32", "UintOn64"} -> "Uint"
      [] OTHER                -> Head(t)

Elem(t) == Tail(t)

\* bits.UintSize of the build
UintSize(t) == IF Head(t) \in {"IntOn32", "UintOn32"} THEN 32 ELSE 64

\* the integer types whose values are kept as digits
IsBig(t) ==
    /\ Kind(t) \in {"Int", "Int32", "Int64", "Uint", "Uint32", "Uint64"}
    /\ Head(t) # "Duration"

\* the zero value reflect.New and reflect.MakeSlice start from
Zero(t) ==
    CASE Head(t) \in {"String", "Time", "JSON", "Empty", "Slice"} -> << >>
      [] Head(t) = "Bool" -> FALSE
      [] IsBig(t) -> Big(FALSE, <<48>>)
      [] OTHER -> 0

\* a type whose values take no memory
ZeroSize(t) == Head(t) = "Empty"

\* the address the allocator returns for every value of size zero
\* (runtime.zerobase); the other addresses are indices of the heap
ZeroBase == -1

\* the result of a coercion: the error, whether property was assigned
\* (property.Set was reached), the value assigned, and the heap afterwards
Result(err, set, val, heap) == [err |-> err, set |-> set, val |-> val, heap |-> heap]

\* mutant: the parsed value is stored before the error is looked at
ScalarWritesOnError(t, r, heap) == Result(r.err, TRUE, r.v, heap)

Scalar(t, r, heap) ==
    IF r.err = NoErr THEN Result(NoErr, TRUE, r.v, heap)
    ELSE Result(r.err, FALSE, Zero(t), heap)

setString(t, values, heap) == Result(NoErr, TRUE, values[1], heap)

setInt(t, values, size, heap) ==
    IF Head(t) = "Duration" THEN Scalar(t, ParseDuration(values[1]), heap)
    ELSE Scalar(t, ParseInt(values[1], size), heap)

setUInt(t, values, size, heap) == Scalar(t, ParseUint(values[1], size), heap)

setBool(t, values, heap) == Scalar(t, ParseBool(values[1]), heap)

setFloat(t, values, size, heap) == Scalar(t, ParseFloat(values[1], size), heap)

setStruct(t, values, heap) ==
    IF Head(t) = "Time" THEN Scalar(t, TimeParse(values[1]), heap)
    ELSE Scalar(t, JSONUnmarshal(values[1]), heap)

\* the rewrite of a byte slice's bag: the first raw string, one decimal
\* string per character, made of the character's first byte
ByteValues(values) ==
    LET chars == Explode(values[1])
    IN  [k \in 1..Len(chars) |-> FormatUint(chars[k][1])]

\* the bag setSlice iterates over
SliceValues(t, values) ==
    IF Kind(Elem(t)) = "Uint8" THEN ByteValues(values) ELSE values

\* mutant: a kind without coercion is passed over without an error
UnsupportedIgnored(t, heap) == Result(NoErr, FALSE, Zero(t), heap)

\* the default branch of setValue
Unsupported(t, heap) ==
    Result(PlainError("unsupported property kind"), FALSE, Zero(t), heap)

RECURSIVE setValue(_, _, _)
RECURSIVE setPointer(_, _, _)
RECURSIVE setSliceLoop(_, _, _, _, _)
RECURSIVE setSlice(_, _, _)

setValue(t, values, heap) ==
    CASE Kind(t) = "Ptr"     -> setPointer(t, values, heap)
      [] Kind(t) = "Slice"   -> setSlice(t, values, heap)
      [] Kind(t) = "String"  -> setString(t, values, heap)
      [] Kind(t) = "Int8"    -> setInt(t, values, 8, heap)
      [] Kind(t) = "Int16"   -> setInt(t, values, 16, heap)
      [] Kind(t) = "Int"     -> setInt(t, values, UintSize(t), heap)
      [] Kind(t) = "Int32"   -> setInt(t, values, 32, heap)
      [] Kind(t) = "Int64"   -> setInt(t, values, 64, heap)
      [] Kind(t) = "Uint"    -> setUInt(t, values, UintSize(t), heap)
      [] Kind(t) = "Uint32"  -> setUInt(t, values, 32, heap)
      [] Kind(t) = "Uint64"  -> setUInt(t, values, 64, heap)
      [] Kind(t) = "Uint8"   -> setUInt(t, values, 8, heap)
      [] Kind(t) = "Uint16"  -> setUInt(t, values, 16, heap)
      [] Kind(t) = "Bool"    -> setBool(t, values, heap)
      [] Kind(t) = "Float64" -> setFloat(t, values, 64, heap)
      [] Kind(t) = "Struct"  -> setStruct(t, values, heap)
      [] OTHER -> Unsupported(t, heap)

\* mutant: nothing is allocated, the pointee is coerced into the first cell
\* of the heap and the field made to point there
setPointerInPlace(t, values, heap) ==
    LET r == setValue(Elem(t), values, heap)
    IN  Result(r.err, TRUE, 1,
               IF r.set THEN [r.heap EXCEPT ![1] = r.val] ELSE r.heap)

\* property.Set(reflect.New(elem)) comes first: the field points to the
\* fresh value whatever the coercion of the pointee returns
setPointer(t, values, heap) ==
    IF ZeroSize(Elem(t))
    THEN Result(setValue(Elem(t), values, heap).err, TRUE, ZeroBase, heap)
    ELSE LET a     == Len(heap) + 1
             heap1 == Append(heap, Zero(Elem(t)))
             r     == setValue(Elem(t), values, heap1)
         IN  Result(r.err, TRUE, a,
                    IF r.set THEN [r.heap EXCEPT ![a] = r.val] ELSE r.heap)

\* the loop over the fresh slice: element i is coerced from values[i] alone
setSliceLoop(t, values, i, slice, heap) ==
    IF i > Len(values) THEN Result(NoErr, TRUE, slice, heap)
    ELSE LET r == setValue(Elem(t), <<values[i]>>, heap)
         IN  IF r.err # NoErr THEN Result(r.err, FALSE, Zero(t), r.heap)
             ELSE setSliceLoop(t, values, i + 1, [slice EXCEPT ![i] = r.val], r.heap)

setSlice(t, values, heap) ==
    LET vals == SliceValues(t, values)
    IN  setSliceLoop(t, vals, 1, [k \in 1..Len(vals) |-> Zero(Elem(t))], heap)

\* the loop of setSlice reaches element k: the elements before it were
\* coerced without error
Reaches(t, vals, k) ==
    \A m \in 1..(k - 1) : setValue(Elem(t), <<vals[m]>>, << >>).err = NoErr

\* values[0], or []byte(c)[0], is read of something empty somewhere in the
\* call setValue(property, values...): an index out of range, which panics
RECURSIVE Panics(_, _)
Panics(t, values) ==
    CASE Kind(t) = "Ptr" -> Panics(Elem(t), values)
      [] Kind(t) = "Slice" /\ Kind(Elem(t)) = "Uint8" ->
            \/ values = << >>
            \/ \E k \in 1..Len(Explode(values[1])) : Explode(values[1])[k] = << >>
      [] Kind(t) = "Slice" /\ Kind(Elem(t)) # "Uint8" ->
            \E k \in 1..Len(values) :
                Panics(Elem(t), <<values[k]>>) /\ Reaches(t, values, k)
      [] Kind(t) \in {"String", "Int", "Int8", "Int16", "Int32", "Int64",
                      "Uint", "Uint8", "Uint16", "Uint32", "Uint64",
                      "Bool", "Float64", "Struct"} -> values = << >>
      [] OTHER -> FALSE

\* mutant: the decimal strings of the bytes are written into the bag that
\* was passed in
BagAfterInPlace(t, values) ==
    IF Kind(t) = "Slice" /\ Kind(Elem(t)) = "Uint8"
    THEN LET vals == ByteValues(values)
         IN  [k \in 1..Len(values) |-> IF k <= Len(vals) THEN vals[k] ELSE values[k]]
    ELSE values

\* the strings of the slice values after the call setValue(property,
\* values...), as its caller sees them.  A pointer passes the slice on
\* (values...); setSlice points its own variable to the slice strings.Split
\* made before it writes the decimal strings (lines 100-103), and hands
\* every element a slice of one string (line 112); nothing else writes.
RECURSIVE BagAfter(_, _)
BagAfter(t, values) ==
    CASE Kind(t) = "Ptr" -> BagAfter(Elem(t), values)
      [] Kind(t) = "Slice" /\ Kind(Elem(t)) = "Uint8" ->
            LET split   == Explode(values[1])
                written == [k \in 1..Len(split) |-> FormatUint(split[k][1])]
            IN  values
      [] OTHER -> values

(***************************************************************************)
(* errors.go: the structured error and newError.  What To returns has one  *)
(* shape: kind "nil" (no error), "error" (the plain invalid-destination    *)
(* error) or "Error" (the structured error).                               *)
(***************************************************************************)
RECURSIVE JoinFrom(_, _)
JoinFrom(values, k) ==
    IF k > Len(values) THEN << >>
    ELSE IF k = 1 THEN values[1] \o JoinFrom(values, 2)
    ELSE <<32>> \o values[k] \o JoinFrom(values, k + 1)

\* strings.Join(values, " ")
Join(values) == JoinFrom(values, 1)

\* mutant: a bag of one string is bracketed like the longer ones
RenderValueAlwaysJoined(values, err) ==
    IF err.kind \in {"NumError", "ParseError", "UnsupportedValueError"} THEN err.text
    ELSE IF Len(values) <= 0 THEN << >>
    ELSE <<91>> \o Join(values) \o <<93>>

\* the Value member newError computes
RenderValue(values, err) ==
    IF err.kind \in {"NumError", "ParseError", "UnsupportedValueError"} THEN err.text
    ELSE IF Len(values) <= 0 THEN << >>
    ELSE IF Len(values) = 1 THEN values[1]
    ELSE <<91>> \o Join(values) \o <<93>>

\* mutant: Value is the rendering of the bag whatever the error is
newErrorRendersBag(field, source, values, err) ==
    [kind |-> "Error", Field |-> field, Source |-> source,
     Value |-> RenderValue(values, PlainError("any")), InnerError |-> err]

newError(field, source, values, err) ==
    [kind |-> "Error", Field |-> field, Source |-> source,
     Value |-> RenderValue(values, err), InnerError |-> err]

RetNil ==
    [kind |-> "nil", Field |-> << >>, Source |-> 0, Value |-> << >>, InnerError |-> NoErr]

\* errors.New("given struct to fill is nil")
RetInvalidDestination ==
    [kind |-> "error", Field |-> << >>, Source |-> 0, Value |-> << >>,
     InnerError |-> PlainError("given struct to fill is nil")]

(***************************************************************************)
(* The inputs of one call of Sources.To.                                   *)
(***************************************************************************)
\* the source tags, and the source lists handed to From
Tags == {1, 2}

SourceLists == { << >>, <<1>>, <<1, 2>> }

\* field types the second field of the destination struct ranges over
Types ==
    { <<"String">>, <<"Int8">>, <<"Uint8">>, <<"Bool">>, <<"Float64">>,
      <<"Duration">>, <<"Time">>, <<"JSON">>, <<"Chan">>,
      <<"Ptr", "Int8">>, <<"Ptr", "Chan">>, <<"Ptr", "Ptr", "Int8">>,
      <<"Ptr", "Slice", "Uint8">>,
      <<"Slice", "Int8">>, <<"Slice", "Uint8">>, <<"Slice", "Float64">>,
      <<"Slice", "Ptr", "Int8">> }

\* the first field: an exported int8 annotated for every source
FirstField == [type |-> <<"Int8">>, tags |-> Tags, exported |-> TRUE]

\* a field declaration: its type, the source tags it is annotated with, and
\* whether it is exported
FieldDecls(types, tagsets) ==
    [type : types, tags : tagsets, exported : BOOLEAN]

\* the destination struct types: two fields
Records ==
    { <<FirstField, g>> : g \in FieldDecls(Types, SUBSET Tags) }

\* a value of type t that is not the zero value (nil for a channel)
RECURSIVE Prior(_)
Prior(t) ==
    CASE Head(t) \in {"String", "JSON"} -> <<119>>
      [] Head(t) = "Empty" -> << >>
      [] Head(t) = "Time"  -> StrTime
      [] Head(t) = "Bool"  -> TRUE
      [] Head(t) = "Slice" -> <<Prior(Elem(t))>>
      [] Head(t) \in {"Ptr", "Chan"} -> 0
      [] IsBig(t) -> Big(FALSE, <<55>>)
      [] OTHER -> 7

\* the value of field k when To is called: a pointer field is nil or points
\* to heap cell k (to a new(struct{}) when the pointee is of size zero)
PriorValue(t, k, set) ==
    IF Head(t) = "Ptr"
    THEN (IF ~set THEN 0 ELSE IF ZeroSize(Elem(t)) THEN ZeroBase ELSE k)
    ELSE Prior(t)

\* heap cell k when To is called: the pointee of field k
PriorCell(t) == IF Head(t) = "Ptr" THEN Prior(Elem(t)) ELSE 0

\* what a resolver returns: a Valuer (or nil) and an error (or nil)
ResolverErrors == {PlainError("resolver"), NumError("Atoi", StrEAcute, "syntax")}

Outcomes ==
    [hasV : {TRUE}, bag : BagsUpTo(MaxBag), err : {NoErr} \cup ResolverErrors]
    \cup [hasV : {FALSE}, bag : {<< >>}, err : {NoErr} \cup ResolverErrors]

NoOutcome == [hasV |-> FALSE, bag |-> << >>, err |-> NoErr]

\* no pair visited yet
NoVisit == [pair |-> <<0, 0>>, how |-> "none", kept |-> TRUE]

(***************************************************************************)
(* State.                                                                  *)
(***************************************************************************)
VARIABLES
    obj,      \* the argument of To: "nil", "nilptr", "ptr" (pointer to the
              \* struct) or "value" (the struct passed by value)
    sources,  \* the source list: the sequence of source tags
    fields,   \* the struct type: the sequence of field declarations
    dest,     \* the struct: the sequence of field values
    heap,     \* the values pointers refer to, by address
    pc,       \* "call", "loop", "returned" or "panic"
    i,        \* index of the field being visited
    j,        \* index of the source being visited
    got,      \* what the resolver returned in the iteration under way when To
              \* returned (NoOutcome while the loops go on)
    ret,      \* what To returned
    pre,      \* history: dest when To was called
    preHeap,  \* history: heap when To was called
    calls,    \* history: the (field, source) pairs the resolver was invoked for
    engine,   \* history: the pairs setValue was invoked for
    coerced,  \* history: the successful coercions, [pair, val]
    failed,   \* history: the pairs that failed
    visit     \* history: the pair visited last and what became of it

vars == <<obj, sources, fields, dest, heap, pc, i, j, got, ret,
          pre, preHeap, calls, engine, coerced, failed, visit>>

inputs == <<obj, sources, fields, pre, preHeap>>

history == <<calls, engine, coerced, failed>>

Init ==
    /\ obj \in {"nil", "nilptr", "ptr", "value"}
    /\ sources \in SourceLists
    /\ fields \in Records
    /\ \E set \in [1..Len(fields) -> BOOLEAN] :
          /\ \A k \in 1..Len(fields) : Head(fields[k].type) # "Ptr" => set[k]
          /\ dest = [k \in 1..Len(fields) |-> PriorValue(fields[k].type, k, set[k])]
    /\ heap = [k \in 1..Len(fields) |-> PriorCell(fields[k].type)]
    /\ pc = "call"
    /\ i = 0
    /\ j = 0
    /\ got = NoOutcome
    /\ ret = RetNil
    /\ pre = dest
    /\ preHeap = heap
    /\ calls = << >>
    /\ engine = << >>
    /\ coerced = << >>
    /\ failed = << >>
    /\ visit = NoVisit

(***************************************************************************)
(* Reading the history.                                                    *)
(***************************************************************************)
Max(S) == CHOOSE x \in S : \A y \in S : y <= x

\* the successful coercions into field f, as indices of the log
CoercedOf(f) == {k \in 1..Len(coerced) : coerced[k].pair[1] = f}

\* the latest successful coercion into field f
LastCoerced(f) == coerced[Max(CoercedOf(f))]

\* the value field f held when the pair that made To return was visited:
\* what the latest successful coercion wrote, or else what f held at the call
HeldBefore(f) == IF CoercedOf(f) = {} THEN pre[f] ELSE LastCoerced(f).val

\* pair p is visited before pair q: fields outermost, sources innermost
Before(p, q) == p[1] < q[1] \/ (p[1] = q[1] /\ p[2] < q[2])

(***************************************************************************)
(* Sources.To                                                              *)
(***************************************************************************)
NumField == Len(fields)

\* field.Tag.Lookup(source.Tag): whether field f carries an annotation for
\* the tag, and the lookup key it gives
TagLookup(f, tag) == tag \in fields[f].tags

TagValue(f, tag) == <<f, tag>>

\* mutant: an exported field of a struct passed by value counts as settable
CanSetExported(f) == fields[f].exported

\* property.CanSet(): the field is exported and the struct addressable
CanSet(f) == obj = "ptr" /\ fields[f].exported

\* len(sources) == 0
NoSources == Len(sources) = 0

\* the pair visited after (f, s): the sources are the inner loop
Advance(f, s) ==
    IF s < Len(sources) THEN <<f, s + 1>> ELSE <<f + 1, 1>>

Continue ==
    /\ i' = Advance(i, j)[1]
    /\ j' = Advance(i, j)[2]
    /\ pc' = "loop"
    /\ ret' = ret
    /\ got' = NoOutcome

Return(e) ==
    /\ pc' = "returned"
    /\ ret' = e
    /\ UNCHANGED <<i, j>>

AtPair == pc = "loop" /\ i <= NumField

\* the pair (i, j) has been visited: "notag" (line 217), "cannotset" (line
\* 222), "nil" or "empty" (line 237, without a Valuer or with an empty bag),
\* "error" (line 233) or "values" (line 240); To itself writes no bag
Visited(how) == visit' = [pair |-> <<i, j>>, how |-> how, kept |-> TRUE]

\* the pair (i, j) has been visited and setValue called with the bag; kept
\* tells whether the bag is afterwards as the resolver returned it
VisitedValues(bag) ==
    visit' = [pair |-> <<i, j>>, how |-> "values",
              kept |-> BagAfter(fields[i].type, bag) = bag]

\* obj == nil
ToNil ==
    /\ pc = "call"
    /\ obj = "nil"
    /\ Return(RetInvalidDestination)
    /\ UNCHANGED <<inputs, dest, heap, got, history>>
    /\ UNCHANGED visit

\* mutant: the length of the source list is looked at after the dereference
ToNoSourcesAfterDeref ==
    /\ pc = "call"
    /\ obj # "nil"
    /\ Len(sources) = 0
    /\ IF obj = "nilptr"
       THEN pc' = "panic" /\ UNCHANGED <<i, j, ret>>
       ELSE Return(RetNil)
    /\ UNCHANGED <<inputs, dest, heap, got, history>>
    /\ UNCHANGED visit

\* an empty source list
ToNoSources ==
    /\ pc = "call"
    /\ obj # "nil"
    /\ NoSources
    /\ Return(RetNil)
    /\ UNCHANGED <<inputs, dest, heap, got, history>>
    /\ UNCHANGED visit

\* a nil pointer to a struct: the dereference loop ends on the zero Value,
\* and valueOf.Type() panics
ToNilPointer ==
    /\ pc = "call"
    /\ obj = "nilptr"
    /\ ~NoSources
    /\ pc' = "panic"
    /\ UNCHANGED <<inputs, dest, heap, i, j, got, ret, history>>
    /\ UNCHANGED visit

\* the loops start at the first field and the first source
ToEnter ==
    /\ pc = "call"
    /\ obj \in {"ptr", "value"}
    /\ ~NoSources
    /\ pc' = "loop"
    /\ i' = 1
    /\ j' = 1
    /\ UNCHANGED <<inputs, dest, heap, got, ret, history>>
    /\ UNCHANGED visit

\* the field carries no annotation for the source
SkipNoTag ==
    /\ AtPair
    /\ ~TagLookup(i, sources[j])
    /\ Continue
    /\ UNCHANGED <<inputs, dest, heap, history>>
    /\ Visited("notag")

\* the field cannot be set
SkipCannotSet ==
    /\ AtPair
    /\ TagLookup(i, sources[j])
    /\ ~CanSet(i)
    /\ Continue
    /\ UNCHANGED <<inputs, dest, heap, history>>
    /\ Visited("cannotset")

\* the bag To reads from what the resolver returned
ValuesOf(o) == IF o.hasV THEN o.bag ELSE << >>

\* mutant: the length of the bag is not looked at
NoValuesNever(o) == FALSE

\* len(values) == 0
NoValues(o) == Len(ValuesOf(o)) = 0

Resolvable == AtPair /\ TagLookup(i, sources[j]) /\ CanSet(i)

\* mutant: the resolver's error is kept but the loops go on
GetFailsContinue ==
    /\ AtPair /\ TagLookup(i, sources[j]) /\ CanSet(i)
    /\ \E o \in Outcomes :
          /\ o.err # NoErr
          /\ got' = o
          /\ ret' = newError(TagValue(i, sources[j]), sources[j],
                             IF o.hasV THEN o.bag ELSE << >>, o.err)
    /\ i' = Advance(i, j)[1]
    /\ j' = Advance(i, j)[2]
    /\ pc' = "loop"
    /\ calls' = Append(calls, <<i, j>>)
    /\ failed' = Append(failed, <<i, j>>)
    /\ UNCHANGED <<inputs, dest, heap, engine, coerced>>
    /\ Visited("error")

\* mutant: the values that came with the resolver's error are dropped
GetFailsNoValues ==
    /\ AtPair /\ TagLookup(i, sources[j]) /\ CanSet(i)
    /\ \E o \in Outcomes :
          /\ o.err # NoErr
          /\ got' = o
          /\ Return(newError(TagValue(i, sources[j]), sources[j], << >>, o.err))
    /\ calls' = Append(calls, <<i, j>>)
    /\ failed' = Append(failed, <<i, j>>)
    /\ UNCHANGED <<inputs, dest, heap, engine, coerced>>
    /\ Visited("error")

\* the resolver returns an error
GetFails ==
    /\ Resolvable
    /\ \E o \in Outcomes :
          /\ o.err # NoErr
          /\ got' = o
          /\ Return(newError(TagValue(i, sources[j]), sources[j], ValuesOf(o), o.err))
    /\ calls' = Append(calls, <<i, j>>)
    /\ failed' = Append(failed, <<i, j>>)
    /\ UNCHANGED <<inputs, dest, heap, engine, coerced>>
    /\ Visited("error")

\* the resolver returns no values
GetEmpty ==
    /\ Resolvable
    /\ \E o \in Outcomes :
          /\ o.err = NoErr
          /\ NoValues(o)
          /\ Visited(IF o.hasV THEN "empty" ELSE "nil")
    /\ Continue
    /\ calls' = Append(calls, <<i, j>>)
    /\ UNCHANGED <<inputs, dest, heap, engine, coerced, failed>>

\* mutant: the first source that supplied a value wins
AssignedFirstWins(f, r) ==
    IF r.set /\ CoercedOf(f) = {} THEN [dest EXCEPT ![f] = r.val] ELSE dest

\* the field after setValue returned r
Assigned(f, r) == IF r.set THEN [dest EXCEPT ![f] = r.val] ELSE dest

\* mutant: a failure restores the whole struct
SetFailsRollback ==
    /\ AtPair /\ TagLookup(i, sources[j]) /\ CanSet(i)
    /\ \E o \in Outcomes :
          /\ o.err = NoErr
          /\ o.hasV /\ Len(o.bag) # 0
          /\ VisitedValues(ValuesOf(o))
          /\ LET r == setValue(fields[i].type, o.bag, heap)
             IN  /\ r.err # NoErr
                 /\ got' = o
                 /\ dest' = pre
                 /\ heap' = preHeap
                 /\ Return(newError(TagValue(i, sources[j]), sources[j], o.bag, r.err))
    /\ calls' = Append(calls, <<i, j>>)
    /\ engine' = Append(engine, <<i, j>>)
    /\ failed' = Append(failed, <<i, j>>)
    /\ UNCHANGED <<inputs, coerced>>

\* the resolver returns values and setValue fails (or panics)
SetFails ==
    /\ Resolvable
    /\ \E o \in Outcomes :
          /\ o.err = NoErr
          /\ ~NoValues(o)
          /\ VisitedValues(ValuesOf(o))
          /\ got' = o
          /\ IF Panics(fields[i].type, ValuesOf(o))
             THEN /\ pc' = "panic"
                  /\ UNCHANGED <<dest, heap, i, j, ret, failed>>
             ELSE LET r == setValue(fields[i].type, ValuesOf(o), heap)
                  IN  /\ r.err # NoErr
                      /\ dest' = Assigned(i, r)
                      /\ heap' = r.heap
                      /\ Return(newError(TagValue(i, sources[j]), sources[j],
                                         ValuesOf(o), r.err))
                      /\ failed' = Append(failed, <<i, j>>)
    /\ calls' = Append(calls, <<i, j>>)
    /\ engine' = Append(engine, <<i, j>>)
    /\ UNCHANGED <<inputs, coerced>>

\* the resolver returns values and setValue succeeds
SetSucceeds ==
    /\ Resolvable
    /\ \E o \in Outcomes :
          /\ o.err = NoErr
          /\ ~NoValues(o)
          /\ VisitedValues(ValuesOf(o))
          /\ ~Panics(fields[i].type, ValuesOf(o))
          /\ LET r == setValue(fields[i].type, ValuesOf(o), heap)
             IN  /\ r.err = NoErr
                 /\ dest' = Assigned(i, r)
                 /\ heap' = r.heap
                 /\ coerced' = Append(coerced, [pair |-> <<i, j>>, val |-> r.val])
    /\ Continue
    /\ calls' = Append(calls, <<i, j>>)
    /\ engine' = Append(engine, <<i, j>>)
    /\ UNCHANGED <<inputs, failed>>

\* every field has been visited
ToDone ==
    /\ pc = "loop"
    /\ i > NumField
    /\ Return(RetNil)
    /\ UNCHANGED <<inputs, dest, heap, got, history>>
    /\ UNCHANGED visit

Next ==
    \/ ToNil
    \/ ToNoSources
    \/ ToNilPointer
    \/ ToEnter
    \/ SkipNoTag
    \/ SkipCannotSet
    \/ GetFails
    \/ GetEmpty
    \/ SetFails
    \/ SetSucceeds
    \/ ToDone

Spec == Init /\ [][Next]_vars

(***************************************************************************)
(* One coercion.  A struct of one exported field, annotated for the one    *)
(* source; the resolver has returned the bag got.bag without error and To  *)
(* is about to call setValue (line 240).  The step is that call and the    *)
(* return of To that follows it.  The bags range over more raw strings     *)
(* and the field over more types than in Spec.                             *)
(***************************************************************************)
\* "AB"
StrAB == <<65, 66>>
\* "-1"
StrMinusOne == <<45, 49>>

EngineStrings == RawStrings \cup {StrNs, StrJSON, StrTime, StrAB, StrMinusOne}

EngineBags == UNION {[1..k -> EngineStrings] : k \in 1..MaxBag}

EngineTypes ==
    Types \cup { <<"Int16">>, <<"Uint16">>, <<"Slice", "String">>, <<"Slice", "Bool">>,
                 <<"Slice", "Slice", "Uint8">>, <<"Slice", "Chan">>,
                 <<"Ptr", "Empty">> }

InitEngine ==
    /\ obj = "ptr"
    /\ sources = <<1>>
    /\ fields \in {<<[type |-> t, tags |-> {1}, exported |-> TRUE]>> : t \in EngineTypes}
    /\ \E set \in BOOLEAN :
          /\ Head(fields[1].type) # "Ptr" => set
          /\ dest = <<PriorValue(fields[1].type, 1, set)>>
    /\ heap = <<PriorCell(fields[1].type)>>
    /\ pc = "loop"
    /\ i = 1
    /\ j = 1
    /\ got \in [hasV : {TRUE}, bag : EngineBags, err : {NoErr}]
    /\ ret = RetNil
    /\ pre = dest
    /\ preHeap = heap
    /\ calls = <<<<1, 1>>>>
    /\ engine = << >>
    /\ coerced = << >>
    /\ failed = << >>
    /\ visit = NoVisit

\* setValue fails and To returns the structured error
CoerceFails ==
    /\ pc = "loop"
    /\ LET r == setValue(fields[i].type, got.bag, heap)
       IN  /\ r.err # NoErr
           /\ dest' = Assigned(i, r)
           /\ heap' = r.heap
           /\ Return(newError(TagValue(i, sources[j]), sources[j], got.bag, r.err))
    /\ engine' = Append(engine, <<i, j>>)
    /\ failed' = Append(failed, <<i, j>>)
    /\ UNCHANGED <<inputs, got, calls, coerced>>
    /\ VisitedValues(got.bag)

\* setValue succeeds, the loops end and To returns nil
CoerceSucceeds ==
    /\ pc = "loop"
    /\ LET r == setValue(fields[i].type, got.bag, heap)
       IN  /\ r.err = NoErr
           /\ dest' = Assigned(i, r)
           /\ heap' = r.heap
           /\ coerced' = Append(coerced, [pair |-> <<i, j>>, val |-> r.val])
    /\ Return(RetNil)
    /\ engine' = Append(engine, <<i, j>>)
    /\ UNCHANGED <<inputs, got, calls, failed>>
    /\ VisitedValues(got.bag)

NextEngine ==
    \/ CoerceFails
    \/ CoerceSucceeds

SpecEngine == InitEngine /\ [][NextEngine]_vars

(***************************************************************************)
(* One coercion of a decimal numeral into an integer field: SpecEngine     *)
(* with a field of an integer type and a bag of one numeral, the numerals  *)
(* lying around the limits of every width.                                 *)
(***************************************************************************)
IntTypes ==
    { <<"Int8">>, <<"Int16">>, <<"Int32">>, <<"Int64">>, <<"IntOn32">>, <<"IntOn64">>,
      <<"Uint8">>, <<"Uint16">>, <<"Uint32">>, <<"Uint64">>, <<"UintOn32">>, <<"UintOn64">>,
      <<"NamedInt64">>, <<"Duration">> }

\* the magnitudes: 0, 1, 7, and 2^k - 1, 2^k, 2^k + 1 around the limits of
\* the widths (k = 7, 8, 15, 16, 31, 32, 63, 64), and 10^20
Magnitudes ==
    { <<48>>,
      <<49>>,
      <<55>>,
      <<49, 50, 55>>,
      <<49, 50, 56>>,
      <<49, 50, 57>>,
      <<50, 53, 53>>,
      <<50, 53, 54>>,
      <<51, 50, 55, 54, 55>>,
      <<51, 50, 55, 54, 56>>,
      <<51, 50, 55, 54, 57>>,
      <<54, 53, 53, 51, 53>>,
      <<54, 53, 53, 51, 54>>,
      <<50, 49, 52, 55, 52, 56, 51, 54, 52, 55>>,
      <<50, 49, 52, 55, 52, 56, 51, 54, 52, 56>>,
      <<50, 49, 52, 55, 52, 56, 51, 54, 52, 57>>,
      <<52, 50, 57, 52, 57, 54, 55, 50, 57, 53>>,
      <<52, 50, 57, 52, 57, 54, 55, 50, 57, 54>>,
      <<57, 50, 50, 51, 51, 55, 50, 48, 51, 54, 56, 53, 52, 55, 55, 53, 56, 48, 55>>,
      <<57, 50, 50, 51, 51, 55, 50, 48, 51, 54, 56, 53, 52, 55, 55, 53, 56, 48, 56>>,
      <<57, 50, 50, 51, 51, 55, 50, 48, 51, 54, 56, 53, 52, 55, 55, 53, 56, 48, 57>>,
      <<49, 56, 52, 52, 54, 55, 52, 52, 48, 55, 51, 55, 48, 57, 53, 53, 49, 54, 49, 53>>,
      <<49, 56, 52, 52, 54, 55, 52, 52, 48, 55, 51, 55, 48, 57, 53, 53, 49, 54, 49, 54>>,
      <<49, 48, 48, 48, 48, 48, 48, 48, 48, 48, 48, 48, 48, 48, 48, 48, 48, 48, 48, 48, 48>> }

\* the integers the numerals denote
Numbers == {Big(neg, d) : neg \in BOOLEAN, d \in Magnitudes}

\* strconv.FormatInt(n, 10): the decimal numeral of n
FormatInt(n) == IF n.neg THEN <<45>> \o n.digits ELSE n.digits

Numerals == {FormatInt(n) : n \in Numbers}

InitInt ==
    /\ obj = "ptr"
    /\ sources = <<1>>
    /\ fields \in {<<[type |-> t, tags |-> {1}, exported |-> TRUE]>> : t \in IntTypes}
    /\ dest = <<Prior(fields[1].type)>>
    /\ heap = <<0>>
    /\ pc = "loop"
    /\ i = 1
    /\ j = 1
    /\ got \in [hasV : {TRUE}, bag : {<<s>> : s \in Numerals}, err : {NoErr}]
    /\ ret = RetNil
    /\ pre = dest
    /\ preHeap = heap
    /\ calls = <<<<1, 1>>>>
    /\ engine = << >>
    /\ coerced = << >>
    /\ failed = << >>
    /\ visit = NoVisit

SpecInt == InitInt /\ [][NextEngine]_vars

(***************************************************************************)
(* Properties of Sources.To.                                               *)
(***************************************************************************)
Returned == pc = "returned"

\* To returned a structured error
Failed == failed # << >>

FailPair == failed[1]

FailField == failed[1][1]

\* the failure came from the resolver
GetFailed == Failed /\ got.err # NoErr

\* the failure came from setValue
EngineFailed == Failed /\ got.err = NoErr

\* C1: with a non-empty source list, an absent destination (the untyped nil
\* or a nil pointer to a struct) makes To return the invalid-destination
\* error: no crash, no resolver invoked, no field processed.
C1_NilDestinationIsError ==
    (obj \in {"nil", "nilptr"} /\ ~NoSources) =>
        /\ pc # "panic"
        /\ Returned => ret = RetInvalidDestination
        /\ calls = << >> /\ engine = << >> /\ dest = pre

\* what holds of the code: the untyped nil is reported as the error
C1_UntypedNilIsError ==
    (obj = "nil" /\ pc # "call") =>
        /\ Returned /\ ret = RetInvalidDestination
        /\ calls = << >> /\ engine = << >> /\ dest = pre

\* C2: To returns at most one structured error, the one of the first pair
\* to fail when the pairs are visited fields outermost and sources
\* innermost; after that pair no resolver is invoked and no field written.
C2_FirstFailureAborts ==
    /\ Len(failed) <= 1
    /\ \A k \in 1..(Len(calls) - 1) : Before(calls[k], calls[k + 1])
    /\ (Returned /\ ret.kind = "Error") => Failed
    /\ Failed =>
          /\ Returned
          /\ ret.kind = "Error"
          /\ ret.Field = TagValue(FailField, sources[FailPair[2]])
          /\ ret.Source = sources[FailPair[2]]
          /\ ret.InnerError # NoErr
          /\ calls[Len(calls)] = FailPair
          /\ \A k \in 1..Len(engine) : ~Before(FailPair, engine[k])
          /\ \A k \in 1..Len(coerced) : Before(coerced[k].pair, FailPair)
          /\ \A f \in 1..NumField : f > FailField => dest[f] = pre[f]

\* a pair fails after an earlier one succeeded and while the second field
\* is still to be visited
C2_Witness ==
    /\ Failed /\ FailPair = <<1, 2>>
    /\ Len(coerced) = 1
    /\ fields[2].tags = Tags /\ fields[2].exported

\* C3, as claimed: when To returns an error, every field coerced from an
\* earlier pair still holds the value that earlier coercion wrote.
C3_EveryCoercionKept ==
    Failed => \A k \in 1..Len(coerced) : dest[coerced[k].pair[1]] = coerced[k].val

\* C3, amended: when To returns an error, every field coerced earlier in the
\* pass holds the value the latest successful coercion into it wrote; only a
\* pointer field of the failing pair holds something else, the fresh pointer
\* setPointer assigned.
C3_LatestCoercionKept ==
    Failed =>
        \A f \in 1..NumField :
            CoercedOf(f) # {} =>
                IF EngineFailed /\ f = FailField /\ Kind(fields[f].type) = "Ptr"
                THEN dest[f] # LastCoerced(f).val
                ELSE dest[f] = LastCoerced(f).val

\* the first field was coerced twice, to different values, and the second
\* field failed
C3_Witness ==
    /\ Failed /\ FailField = 2
    /\ Len(coerced) = 2
    /\ coerced[1].val # coerced[2].val
    /\ dest[1] = coerced[2].val
    /\ dest[1] # pre[1]

\* C4: when several sources supply a field with values that coerce, the
\* field holds, after To, the value coerced from the last of them in
\* declared order.
C4_LastSourceWins ==
    Returned =>
        \A f \in 1..NumField :
            (CoercedOf(f) # {} /\ ~(Failed /\ FailField = f)) =>
                \E k \in CoercedOf(f) :
                    /\ \A m \in CoercedOf(f) : coerced[m].pair[2] <= coerced[k].pair[2]
                    /\ dest[f] = coerced[k].val

\* To succeeded and two sources supplied the second field with different
\* values
C4_Witness ==
    /\ Returned /\ ret = RetNil
    /\ Cardinality(CoercedOf(2)) = 2
    /\ \E k, m \in CoercedOf(2) :
          /\ coerced[k].pair[2] < coerced[m].pair[2]
          /\ coerced[k].val # coerced[m].val
          /\ dest[2] = coerced[m].val

\* C5: when setValue fails on a field that is not a pointer (string,
\* integer, unsigned, bool, float, duration, time, JSON struct, slice, or a
\* type without coercion), the field holds what it held when the failing
\* call was made: its value at the call of To, unless an earlier source of
\* the same pass had written it.
C5_FailedFieldUnmodified ==
    (EngineFailed /\ Kind(fields[FailField].type) # "Ptr") =>
        /\ Returned /\ ret.kind = "Error"
        /\ dest[FailField] = HeldBefore(FailField)
        /\ \A f \in 1..NumField : f # FailField => dest[f] = HeldBefore(f)

\* a slice field whose second element fails to parse, after the first parsed
C5_Witness ==
    /\ EngineFailed
    /\ fields[FailField].type = <<"Slice", "Int8">>
    /\ got.bag = <<StrOne, StrEAcute>>
    /\ dest[FailField] = <<7>>

\* C6: when the coercion of the pointee of a pointer field fails, the field
\* holds the pointer it held before.
C6_PointerFieldUnmodified ==
    (EngineFailed /\ Kind(fields[FailField].type) = "Ptr") =>
        dest[FailField] = HeldBefore(FailField)

\* what the code does: the field points to a value allocated by the call
C6_PointerFieldReplaced ==
    (EngineFailed /\ Kind(fields[FailField].type) = "Ptr") =>
        /\ dest[FailField] > Len(preHeap)
        /\ dest[FailField] # HeldBefore(FailField)

\* C9, as claimed: with an empty source list To succeeds for every
\* destination, invokes nothing and changes no field.
C9_NoSourcesSucceeds ==
    (NoSources /\ pc # "call") =>
        /\ Returned /\ ret = RetNil
        /\ calls = << >> /\ engine = << >> /\ dest = pre /\ heap = preHeap

\* C9, amended: with an empty source list To succeeds, invokes nothing and
\* changes no field for every destination but the untyped nil (a nil
\* pointer to a struct included); for the untyped nil it returns the
\* invalid-destination error.
C9_NoSourcesSucceedsUnlessNil ==
    (NoSources /\ pc # "call") =>
        /\ Returned
        /\ ret = IF obj = "nil" THEN RetInvalidDestination ELSE RetNil
        /\ calls = << >> /\ engine = << >> /\ dest = pre /\ heap = preHeap

\* To returned for a nil pointer to a struct and no sources
C9_Witness == NoSources /\ obj = "nilptr" /\ Returned /\ ret = RetNil

\* the rendering of a bag, written out
RECURSIVE Spaced(_)
Spaced(rest) ==
    IF rest = << >> THEN << >> ELSE <<32>> \o Head(rest) \o Spaced(Tail(rest))

Rendered(bag) ==
    IF bag = << >> THEN << >>
    ELSE IF Len(bag) = 1 THEN bag[1]
    ELSE <<91>> \o bag[1] \o Spaced(Tail(bag)) \o <<93>>

\* C10, as claimed: a resolver failure is returned as a structured error
\* with the lookup key, the source name, an empty Value and the resolver's
\* error; setValue is not invoked and the field keeps its value.
C10_ResolverErrorValueEmpty ==
    GetFailed =>
        /\ Returned /\ ret.kind = "Error"
        /\ ret.Field = TagValue(FailField, sources[FailPair[2]])
        /\ ret.Source = sources[FailPair[2]]
        /\ ret.Value = << >>
        /\ ret.InnerError = got.err
        /\ \A k \in 1..Len(engine) : engine[k] # FailPair
        /\ dest[FailField] = HeldBefore(FailField)

\* C10, amended: Value is the rendering of the bag that came with the
\* error (empty without a Valuer or with an empty bag, the string of a
\* one-string bag, the bracketed list otherwise), or the text the
\* resolver's error carries when it is a NumError, ParseError or
\* UnsupportedValueError.
C10_ResolverErrorReported ==
    GetFailed =>
        /\ Returned /\ ret.kind = "Error"
        /\ ret.Field = TagValue(FailField, sources[FailPair[2]])
        /\ ret.Source = sources[FailPair[2]]
        /\ ret.Value =
              IF got.err.kind \in {"NumError", "ParseError", "UnsupportedValueError"}
              THEN got.err.text
              ELSE IF got.hasV THEN Rendered(got.bag) ELSE << >>
        /\ ret.InnerError = got.err
        /\ \A k \in 1..Len(engine) : engine[k] # FailPair
        /\ dest[FailField] = HeldBefore(FailField)

\* a resolver fails with a plain error and a bag of two strings
C10_Witness ==
    /\ GetFailed
    /\ got.err.kind = "error"
    /\ got.hasV /\ Len(got.bag) = 2
    /\ ret.Value = <<91>> \o got.bag[1] \o <<32>> \o got.bag[2] \o <<93>>

(***************************************************************************)
(* Properties of one coercion (SpecEngine).                                *)
(***************************************************************************)
\* the value v of type t with every pointer replaced by what it points to
RECURSIVE Deep(_, _, _)
Deep(t, v, h) ==
    CASE Kind(t) = "Ptr"   -> IF v = 0 THEN << >>
                              ELSE IF v = ZeroBase THEN <<Zero(Elem(t))>>
                              ELSE <<Deep(Elem(t), h[v], h)>>
      [] Kind(t) = "Slice" -> [k \in 1..Len(v) |-> Deep(Elem(t), v[k], h)]
      [] OTHER -> v

\* the coercion of the one raw string s into a fresh value of type t
Alone(t, s) == setValue(t, <<s>>, << >>)

\* C7: a []uint8 field given exactly one raw string s is coerced without
\* error to the byte sequence of s: as many elements as s has bytes, element
\* k being byte k of s.
C7_ByteSliceIsBytesOfString ==
    (Returned /\ fields[1].type = <<"Slice", "Uint8">> /\ Len(got.bag) = 1) =>
        /\ ret = RetNil
        /\ Len(dest[1]) = Len(got.bag[1])
        /\ \A k \in 1..Len(got.bag[1]) : dest[1][k] = got.bag[1][k]

\* C8: a slice field, unless it is a []uint8 given exactly one raw string,
\* gets one element per raw string, in order, element k being the coercion
\* of raw string k alone (and fails when one of these coercions fails).
C8_OneElementPerString ==
    (/\ Returned
     /\ Kind(fields[1].type) = "Slice"
     /\ ~(Kind(Elem(fields[1].type)) = "Uint8" /\ Len(got.bag) = 1)) =>
        LET t == Elem(fields[1].type)
        IN  IF \A k \in 1..Len(got.bag) : Alone(t, got.bag[k]).err = NoErr
            THEN /\ ret = RetNil
                 /\ Len(dest[1]) = Len(got.bag)
                 /\ \A k \in 1..Len(got.bag) :
                       Deep(t, dest[1][k], heap) =
                           Deep(t, Alone(t, got.bag[k]).val, Alone(t, got.bag[k]).heap)
            ELSE ret.kind = "Error" /\ dest[1] = pre[1]

\* C8 for the slices whose elements are not of kind Uint8: what the code does
C8_OneElementPerStringNotBytes ==
    (/\ Returned
     /\ Kind(fields[1].type) = "Slice"
     /\ Kind(Elem(fields[1].type)) # "Uint8") =>
        LET t == Elem(fields[1].type)
        IN  IF \A k \in 1..Len(got.bag) : Alone(t, got.bag[k]).err = NoErr
            THEN /\ ret = RetNil
                 /\ Len(dest[1]) = Len(got.bag)
                 /\ \A k \in 1..Len(got.bag) :
                       Deep(t, dest[1][k], heap) =
                           Deep(t, Alone(t, got.bag[k]).val, Alone(t, got.bag[k]).heap)
            ELSE ret.kind = "Error" /\ dest[1] = pre[1]

\* the type at the end of the chain of pointers and slices of t
RECURSIVE Leaf(_)
Leaf(t) == IF Head(t) \in {"Ptr", "Slice"} THEN Leaf(Elem(t)) ELSE t

\* the types whose raw strings strconv parses as numbers
IsNumeric(t) == Head(t) \in {"Int8", "Int16", "Int32", "Int64",
                             "Uint8", "Uint16", "Uint32", "Uint64", "Float64"}

\* the raw string of the bag at which the coercion into t stops: the first
\* string for a scalar, for a slice the first string that does not coerce
\* into an element on its own
RECURSIVE FailingString(_, _)
FailingString(t, bag) ==
    CASE Head(t) = "Ptr" -> FailingString(Elem(t), bag)
      [] Head(t) = "Slice" ->
            LET bad == {k \in 1..Len(bag) : Alone(Elem(t), bag[k]).err # NoErr}
                k0  == CHOOSE k \in bad : \A m \in bad : k <= m
            IN  FailingString(Elem(t), <<bag[k0]>>)
      [] OTHER -> bag[1]

\* the failures whose error carries the text that did not parse: those of
\* strconv (integers, unsigned, bool, float) and of time.Parse
CarriesText(t) == IsNumeric(Leaf(t)) \/ Head(Leaf(t)) \in {"Bool", "Time"}

\* C11, as claimed: when setValue fails, Value is determined by the bag
\* alone: its one string, or the bracketed list of all its strings when it
\* holds two or more, whatever the failure.
C11_ValueRendersBag ==
    EngineFailed => ret.kind = "Error" /\ ret.Value = Rendered(got.bag)

\* C11, amended: when setValue fails on an integer, unsigned, bool, float
\* or timestamp parse, Value is the one raw string that did not parse (the
\* first string of the bag for a scalar, the failing element for a slice);
\* for every other failure (duration, JSON, unsupported kind) it is the
\* bag's one string, or the bracketed list of all its strings.
C11_ValueRendersBagOrFailingString ==
    EngineFailed =>
        /\ ret.kind = "Error"
        /\ ret.Value = IF CarriesText(fields[FailField].type)
                       THEN FailingString(fields[FailField].type, got.bag)
                       ELSE Rendered(got.bag)

\* malformed JSON in a bag of two strings: Value is the bracketed list
C11_Witness ==
    /\ EngineFailed
    /\ fields[1].type = <<"JSON">>
    /\ got.bag = <<StrAB, StrJSON>>
    /\ ret.Value = <<91, 65, 66, 32, 123, 125, 93>>

\* C12: when a raw string fails to parse as a number for a numeric field or
\* for an element of a numeric slice field, To returns a structured error
\* whose Field is the lookup key of the field and whose Value is that one
\* raw string: for a slice the first element that does not parse, wherever
\* it is in the bag, the elements before it having parsed.
C12_ValueIsFailingString ==
    LET t == fields[FailField].type
    IN  (EngineFailed /\ (IsNumeric(t) \/ (Head(t) = "Slice" /\ IsNumeric(Elem(t))))) =>
            /\ Returned /\ ret.kind = "Error"
            /\ ret.Field = TagValue(FailField, sources[FailPair[2]])
            /\ ret.Source = sources[FailPair[2]]
            /\ ret.InnerError.kind = "NumError"
            /\ ret.Value = FailingString(t, got.bag)
            /\ Alone(Leaf(t), ret.Value).err = ret.InnerError
            /\ \E k \in 1..Len(got.bag) :
                  /\ got.bag[k] = ret.Value
                  /\ Head(t) # "Slice" => k = 1
                  /\ Head(t) = "Slice" =>
                        \A m \in 1..(k - 1) : Alone(Elem(t), got.bag[m]).err = NoErr

\* the second string of a []float64 field of the second struct field, from
\* the second source, does not parse
C12_Witness ==
    /\ EngineFailed
    /\ FailPair = <<2, 2>>
    /\ fields[2].type = <<"Slice", "Float64">>
    /\ got.bag = <<Str300, StrEAcute>>
    /\ ret.Value = StrEAcute

(***************************************************************************)
(* Properties of the pairs To skips.                                       *)
(***************************************************************************)
\* the pair visited is skipped: nothing changes but the position of the
\* loops, which is that of the next pair
SkipStep ==
    /\ dest' = dest /\ heap' = heap
    /\ ret' = ret /\ pc' = "loop"
    /\ <<i', j'>> = IF j < Len(sources) THEN <<i, j + 1>> ELSE <<i + 1, 1>>
    /\ engine' = engine /\ coerced' = coerced /\ failed' = failed

\* what one visit of the pair (i, j) does
PairStep ==
    LET annotated == sources[j] \in fields[i].tags
        settable  == obj = "ptr" /\ fields[i].exported
        how       == visit'.how
    IN  /\ visit'.pair = <<i, j>>
        /\ ~annotated => how = "notag"
        /\ (annotated /\ ~settable) => how = "cannotset"
        /\ (annotated /\ settable) => how \in {"nil", "empty", "error", "values"}
        /\ how \in {"notag", "cannotset"} => calls' = calls
        /\ how \in {"nil", "empty", "error", "values"} => calls' = Append(calls, <<i, j>>)
        /\ how \in {"notag", "cannotset", "nil", "empty"} => SkipStep
        /\ (dest' # dest \/ heap' # heap) =>
              how = "values" /\ engine' = Append(engine, <<i, j>>)

\* C13: a pair is skipped (no error, no field changed, the next pair comes)
\* when the field has no annotation for the source, when the field cannot
\* be set (unexported, or the struct passed by value), and when the resolver
\* returns no error with a nil Valuer or an empty bag; in the first two
\* cases the resolver is not invoked.  So a field differs from its value at
\* the call only if setValue was invoked for it, for a source it is
\* annotated with, the field being settable.
C13_SkippedPairs ==
    /\ [][AtPair => PairStep]_vars
    /\ [](\A f \in 1..Len(dest) :
             dest[f] # pre[f] =>
                 \E k \in 1..Len(engine) :
                     /\ engine[k][1] = f
                     /\ sources[engine[k][2]] \in fields[f].tags
                     /\ obj = "ptr" /\ fields[f].exported
                     /\ \E m \in 1..Len(calls) : calls[m] = engine[k])

\* the resolvers were invoked for all four pairs and returned nothing, the
\* last one a nil Valuer; To returned nil and the struct is as it was
C13_Witness ==
    /\ Returned /\ ret = RetNil
    /\ calls = << <<1, 1>>, <<1, 2>>, <<2, 1>>, <<2, 2>> >>
    /\ visit.pair = <<2, 2>> /\ visit.how = "nil"
    /\ engine = << >>
    /\ dest = pre /\ heap = preHeap

\* the error of setValue's default branch
UnsupportedKind == PlainError("unsupported property kind")

\* C14: a field of a type without coercion (a channel) makes To fail
\* whenever a resolver returns a non-empty bag for it, whatever the strings:
\* To returns the structured error of that pair, wrapping the
\* unsupported-kind error, and the field is what it was at the call of To.
C14_UnsupportedKindFails ==
    \A f \in 1..NumField :
        Kind(fields[f].type) = "Chan" =>
            /\ dest[f] = pre[f]
            /\ \A k \in 1..Len(coerced) : coerced[k].pair[1] # f
            /\ \A k \in 1..Len(engine) :
                  engine[k][1] = f =>
                      /\ Returned /\ ret.kind = "Error"
                      /\ Failed /\ FailPair = engine[k]
                      /\ ret.Field = TagValue(f, sources[engine[k][2]])
                      /\ ret.Source = sources[engine[k][2]]
                      /\ ret.InnerError = UnsupportedKind
                      /\ ret.Value = Rendered(got.bag)

\* the second field is a channel, its first source returned nothing and its
\* second source a bag of two strings, after the first field was coerced
C14_Witness ==
    /\ Failed /\ FailPair = <<2, 2>>
    /\ fields[2].type = <<"Chan">>
    /\ Len(got.bag) = 2
    /\ ret.InnerError = UnsupportedKind
    /\ Len(coerced) = 2
    /\ dest[2] = pre[2]

\* what C15 says of every pointer field but for the identity of the pointer
PointerHoldsResult ==
    LET t == Elem(fields[1].type)
        r == setValue(t, got.bag, << >>)
    IN  /\ dest[1] # 0
        /\ \A a \in 1..Len(preHeap) : heap[a] = preHeap[a]
        /\ r.err = NoErr
        /\ Deep(fields[1].type, dest[1], heap) = <<Deep(t, r.val, r.heap)>>

\* C15, as claimed: when a non-empty bag is coerced without error into a
\* pointer field, the field is not nil and points to a value allocated by
\* the call, which holds the coercion of the bag into the pointee type; the
\* field is never the pointer it held before and what that pointer referred
\* to is as it was.
C15_PointerIsFresh ==
    (Returned /\ ret = RetNil /\ Kind(fields[1].type) = "Ptr") =>
        /\ PointerHoldsResult
        /\ dest[1] # pre[1]

\* C15, amended: the same, the field being another pointer than before when
\* the pointee type is not of size zero (a new address of the heap); every
\* allocation of a value of size zero gives the same address, which the
\* field may have held before.
C15_PointerIsFreshUnlessZeroSize ==
    (Returned /\ ret = RetNil /\ Kind(fields[1].type) = "Ptr") =>
        /\ PointerHoldsResult
        /\ IF ZeroSize(Elem(fields[1].type))
           THEN dest[1] = ZeroBase
           ELSE /\ dest[1] # pre[1]
                /\ dest[1] > Len(preHeap) /\ dest[1] <= Len(heap)

\* a *int8 field that pointed to a 7 is coerced from "1": it points to a
\* new 1 and the 7 is still there
C15_Witness ==
    /\ Returned /\ ret = RetNil
    /\ fields[1].type = <<"Ptr", "Int8">>
    /\ got.bag = <<StrOne>>
    /\ pre[1] = 1 /\ preHeap[1] = 7
    /\ dest[1] = 2 /\ heap = <<7, 1>>

(***************************************************************************)
(* Properties of the coercion of numerals (SpecInt).                       *)
(***************************************************************************)
\* a < b
BigLess(a, b) ==
    IF a.neg /\ ~b.neg THEN TRUE
    ELSE IF ~a.neg /\ b.neg THEN FALSE
    ELSE IF a.neg THEN DigitsLess(b.digits, a.digits)
    ELSE DigitsLess(a.digits, b.digits)

\* the least and the greatest value of an integer type of w bits
MinSigned(w) ==
    CASE w = 8  -> Big(TRUE, <<49, 50, 56>>)
      [] w = 16 -> Big(TRUE, <<51, 50, 55, 54, 56>>)
      [] w = 32 -> Big(TRUE, <<50, 49, 52, 55, 52, 56, 51, 54, 52, 56>>)
      [] w = 64 -> Big(TRUE, <<57, 50, 50, 51, 51, 55, 50, 48, 51, 54, 56, 53, 52, 55, 55, 53, 56, 48, 56>>)

MaxSigned(w) ==
    CASE w = 8  -> Big(FALSE, <<49, 50, 55>>)
      [] w = 16 -> Big(FALSE, <<51, 50, 55, 54, 55>>)
      [] w = 32 -> Big(FALSE, <<50, 49, 52, 55, 52, 56, 51, 54, 52, 55>>)
      [] w = 64 -> Big(FALSE, <<57, 50, 50, 51, 51, 55, 50, 48, 51, 54, 56, 53, 52, 55, 55, 53, 56, 48, 55>>)

MaxUnsigned(w) ==
    CASE w = 8  -> Big(FALSE, <<50, 53, 53>>)
      [] w = 16 -> Big(FALSE, <<54, 53, 53, 51, 53>>)
      [] w = 32 -> Big(FALSE, <<52, 50, 57, 52, 57, 54, 55, 50, 57, 53>>)
      [] w = 64 -> Big(FALSE, <<49, 56, 52, 52, 54, 55, 52, 52, 48, 55, 51, 55, 48, 57, 53, 53, 49, 54, 49, 53>>)

\* the width of an integer type and whether it is signed
WidthOf(t) ==
    CASE Head(t) \in {"Int8", "Uint8"} -> 8
      [] Head(t) \in {"Int16", "Uint16"} -> 16
      [] Head(t) \in {"Int32", "Uint32", "IntOn32", "UintOn32"} -> 32
      [] OTHER -> 64

IsSigned(t) ==
    Head(t) \in {"Int8", "Int16", "Int32", "Int64", "IntOn32", "IntOn64",
                 "NamedInt64", "Duration"}

\* n is a value of the type t
InRange(t, n) ==
    LET lo == IF IsSigned(t) THEN MinSigned(WidthOf(t)) ELSE Big(FALSE, <<48>>)
        hi == IF IsSigned(t) THEN MaxSigned(WidthOf(t)) ELSE MaxUnsigned(WidthOf(t))
    IN  ~BigLess(n, lo) /\ ~BigLess(hi, n)

\* the field of type t holds n
Holds(t, v, n) ==
    IF IsBig(t) THEN v = n
    ELSE v = (IF n.neg THEN 0 - DecimalValue(n.digits, 0) ELSE DecimalValue(n.digits, 0))

\* the numeral of n is coerced into the field, which holds n
Stores(n) == ret = RetNil /\ Holds(fields[1].type, dest[1], n)

\* the coercion fails with a conversion error and the field is as it was
Rejects ==
    /\ ret.kind = "Error" /\ ret.InnerError # NoErr
    /\ ret.InnerError # UnsupportedKind
    /\ dest[1] = pre[1]

\* C16, as claimed: for every integer field (8, 16, 32, 64 bits or the width
\* of the platform, signed or unsigned, named 64-bit signed types included)
\* and every integer n, the decimal numeral of n is coerced to n when n is a
\* value of the field's type, and fails with a conversion error, the field
\* keeping its value, when it is not.
C16_NumeralRoundTrip ==
    Returned =>
        \A n \in Numbers :
            got.bag = <<FormatInt(n)>> =>
                IF InRange(fields[1].type, n) THEN Stores(n) ELSE Rejects

\* C16, amended: the same for every integer field but time.Duration; a
\* time.Duration field takes of the decimal numerals only "0" (as 0) and
\* rejects every other, in range or not.
C16_NumeralRoundTripButDuration ==
    Returned =>
        \A n \in Numbers :
            got.bag = <<FormatInt(n)>> =>
                IF fields[1].type = <<"Duration">>
                THEN (IF n = Big(FALSE, <<48>>) THEN Stores(n) ELSE Rejects)
                ELSE (IF InRange(fields[1].type, n) THEN Stores(n) ELSE Rejects)

\* the least int64 is coerced into an int64 field that held 7
C16_Witness ==
    /\ Returned /\ ret = RetNil
    /\ fields[1].type = <<"Int64">>
    /\ got.bag = <<<<45>> \o <<57, 50, 50, 51, 51, 55, 50, 48, 51, 54, 56, 53, 52, 55, 55, 53, 56, 48, 56>>>>
    /\ pre[1] = Big(FALSE, <<55>>)
    /\ dest[1] = Big(TRUE, <<57, 50, 50, 51, 51, 55, 50, 48, 51, 54, 56, 53, 52, 55, 55, 53, 56, 48, 56>>)

(***************************************************************************)
(* Properties of the calls of setValue.                                    *)
(***************************************************************************)
\* the lengths of the bags that the call setValue(property, values...) and
\* the calls it makes in turn, through pointers and slices, receive
RECURSIVE BagSizes(_, _)
BagSizes(t, values) ==
    {Len(values)} \cup
        CASE Kind(t) = "Ptr" -> BagSizes(Elem(t), values)
          [] Kind(t) = "Slice" /\ ~(Kind(Elem(t)) = "Uint8" /\ values = << >>) ->
                LET vals == SliceValues(t, values)
                IN  UNION { IF Reaches(t, vals, k)
                            THEN BagSizes(Elem(t), <<vals[k]>>) ELSE {} :
                            k \in 1..Len(vals) }
          [] OTHER -> {}

\* C17: every call of setValue that To makes, directly or through pointers
\* and slices (the split of an empty string into bytes included), receives
\* at least one raw string, and no read of a first element is out of range:
\* To does not panic once the loops have started, and every call of setValue
\* returns, with a value or with an error.
C17_EveryCallHasAString ==
    /\ pc = "panic" => (obj = "nilptr" /\ i = 0 /\ engine = << >>)
    /\ Len(engine) = Len(coerced) + (IF EngineFailed THEN 1 ELSE 0)
    /\ EngineFailed =>
          /\ ~Panics(fields[FailField].type, got.bag)
          /\ \A n \in BagSizes(fields[FailField].type, got.bag) : n >= 1

\* a *[]uint8 field was coerced from an empty string, to a pointer to an
\* empty slice, and To has returned
C17_Witness ==
    /\ fields[2].type = <<"Ptr", "Slice", "Uint8">>
    /\ \E k \in 1..Len(coerced) :
          /\ coerced[k].pair = <<2, 1>>
          /\ coerced[k].val # 0
          /\ heap[coerced[k].val] = << >>
    /\ Returned

====
